---- MODULE Spec2Model ----
(***************************************************************************)
(* A model of the well-log-analysis scripts: the LAS text parsing of       *)
(* visualization.py / crossplots.py (the two copies are line for line the  *)
(* same), the cross-plot and porosity functions of crossplots.py, the      *)
(* track plot of visualization.py and the helpers of data_processing.py.   *)
(*                                                                         *)
(* Text is modelled at character level: a character is its Unicode code    *)
(* point and a line a sequence of code points.  The two section markers    *)
(* are abbreviated: the literal '~Curve Information Block' is written '~C' *)
(* and the literal '~ASCII' is written '~A'.  Python's None is the empty   *)
(* sequence <<>> and an integer i that may be None is <<i>>.  The float    *)
(* read from a token is the IEEE-754 double float() returns, held as its   *)
(* sign, odd mantissa and binary exponent.  A float of a table passed to a *)
(* plotting function is a fraction [n, d] with d >= 0: d = 0 gives the     *)
(* IEEE values inf (n > 0), -inf (n < 0) and NaN (n = 0).                  *)
(***************************************************************************)
EXTENDS Integers, Sequences, FiniteSets, TLC

VARIABLES
    \* ---- the LAS parsing script (visualization.py 140-168)
    lines,          \* f.readlines(): the lines of the file, each ending in "\n"
    pc,             \* the statement the script is about to run
    curve_start,    \* None or the index of the curve marker line
    ascii_start,    \* None or the index after the ~ASCII marker line
    curve_names,    \* the list of mnemonics
    data,           \* the list of parsed rows
    df,             \* None, or the DataFrame built from data and curve_names
    err,            \* the exception that ended the script, "none" if none
    \* ---- one call of a plotting function (crossplots.py, visualization.py)
    table,          \* the DataFrame the caller holds and passes as df
    fn,             \* the function that ran last, "none" before a call
    formation_tops, \* its formation_tops: None, or the depths in insertion order
    matrix_density, \* its matrix_density
    fluid_density,  \* its fluid_density
    log_tracks,     \* its log_tracks
    column_args,    \* its column, or its x_column and y_column
    df_calc,        \* porosity_estimation_plot's copy of df, with PHID
    valid_data,     \* the rows left by the function's filter
    labels,         \* the formation assigned to each row of valid_data
    plotted,        \* the measurements handed to the axes (x, y and colour values)
    stat_values,    \* the measurements the printed minima and maxima are taken over
    ranges,         \* the printed minima and maxima
    figures,        \* the figures it made (plt.subplots or plt.figure)
    ret,            \* what the call came to: a figure, (None, None), an exception
    \* ---- data_processing.py, utils.py and tests/test_data_processing.py
    dataset,        \* the data passed: None, or a DataFrame as its columns
    proc,           \* the function that ran last, "none" before a call
    result,         \* what it returned
    test            \* how far the test module got

procVars == <<dataset, proc, result, test>>

plotVars ==
    <<table, fn, formation_tops, matrix_density, fluid_density, log_tracks,
      column_args, df_calc, valid_data, labels, plotted, stat_values, ranges,
      figures, ret>>

parseVars == <<lines, pc, curve_start, ascii_start, curve_names, data, df, err>>

vars == <<parseVars, plotVars, procVars>>

----------------------------------------------------------------------------
(* Bounds of the model *)

\* The longest file read, in lines.
MaxLines == 6
\* The most rows of a table passed to a plotting function.
MaxRows == 2
\* The most formation tops passed.
MaxTops == 3
\* The most samples of a column passed to the data_processing functions.
MaxSamples == 3

----------------------------------------------------------------------------
(* Python values *)

None == <<>>
Some(i) == <<i>>
Val(o) == o[1]

\* A float as a fraction; pandas' NaN is 0/0.
Frac(n, d) == [n |-> n, d |-> d]
NaN == Frac(0, 0)
IsNaN(x) == x.d = 0 /\ x.n = 0

Min2(a, b) == IF a <= b THEN a ELSE b
Max2(a, b) == IF a >= b THEN a ELSE b

----------------------------------------------------------------------------
(* Float arithmetic as numpy does it on a Series: no exception, x / 0.0 is *)
(* inf, -inf or NaN, and every comparison with NaN is False                *)

Abs(x) == IF x < 0 THEN -x ELSE x

RECURSIVE GCD(_, _)
GCD(a, b) == IF b = 0 THEN a ELSE GCD(b, a % b)

\* The fraction n/d in lowest terms with a denominator >= 0 (the same number).
Norm(n, d) ==
    IF n = 0 /\ d = 0 THEN NaN
    ELSE LET g == GCD(Abs(n), Abs(d))
         IN IF d < 0 THEN Frac(-(n \div g), (-d) \div g)
            ELSE Frac(n \div g, d \div g)

Sign(n) == IF n < 0 THEN -1 ELSE IF n > 0 THEN 1 ELSE 0
IsInf(x) == x.d = 0 /\ x.n # 0

\* a - b: inf - inf and -inf - (-inf) are NaN, inf - (-inf) is inf.
FSub(a, b) ==
    IF IsNaN(a) \/ IsNaN(b) THEN NaN
    ELSE IF IsInf(a) /\ IsInf(b)
         THEN IF Sign(a.n) = Sign(b.n) THEN NaN ELSE Frac(Sign(a.n), 0)
         ELSE Norm(a.n * b.d - b.n * a.d, a.d * b.d)

\* a / b: x / 0.0 is inf, -inf or NaN by the sign of x, inf / inf is NaN,
\* x / inf is 0, and inf / y takes the sign of y as well.
FDiv(a, b) ==
    IF IsNaN(a) \/ IsNaN(b) THEN NaN
    ELSE IF IsInf(a)
         THEN IF IsInf(b) THEN NaN
              ELSE Frac(Sign(a.n) * (IF b.n < 0 THEN -1 ELSE 1), 0)
         ELSE IF IsInf(b) THEN Frac(0, 1)
              ELSE Norm(a.n * b.d, a.d * b.n)

FLe(a, b) ==
    /\ ~IsNaN(a) /\ ~IsNaN(b)
    /\ IF a.d = 0 /\ b.d = 0 THEN a.n <= b.n ELSE a.n * b.d <= b.n * a.d
FGe(a, b) == FLe(b, a)
FLt(a, b) == FLe(a, b) /\ ~FLe(b, a)
FEq(a, b) == FLe(a, b) /\ FLe(b, a)
\* a != b: True when either is NaN.
FNe(a, b) == ~FEq(a, b)

\* Series.clip(lo, hi): NaN stays NaN.
Clip(x, lo, hi) == IF FLt(x, lo) THEN lo ELSE IF FLt(hi, x) THEN hi ELSE x

Zero == Frac(0, 1)
One == Frac(1, 1)
\* The null value of the logs, -999.25.
Null == Frac(-99925, 100)

\* Series.min() and Series.max(): NaN is skipped; NaN when nothing is left.
FMin(S) ==
    IF {x \in S : ~IsNaN(x)} = {} THEN NaN
    ELSE CHOOSE x \in S : ~IsNaN(x) /\ \A y \in S : IsNaN(y) \/ FLe(x, y)
FMax(S) ==
    IF {x \in S : ~IsNaN(x)} = {} THEN NaN
    ELSE CHOOSE x \in S : ~IsNaN(x) /\ \A y \in S : IsNaN(y) \/ FGe(x, y)

Range(s) == {s[i] : i \in 1..Len(s)}

----------------------------------------------------------------------------
(* str methods.  A character is its Unicode code point, a str a sequence   *)
(* of code points                                                          *)

\* The printable ASCII characters in code order, but for the quote (34), the
\* backslash (92) and the grave accent (96): each run with the code of its
\* first character.
AsciiRuns ==
    {[first |-> 32, chars |-> <<" ", "!">>],
     [first |-> 35, chars |->
        <<"#", "$", "%", "&", "'", "(", ")", "*", "+", ",", "-", ".",
          "/", "0", "1", "2", "3", "4", "5", "6", "7", "8", "9", ":",
          ";", "<", "=", ">", "?", "@", "A", "B", "C", "D", "E", "F",
          "G", "H", "I", "J", "K", "L", "M", "N", "O", "P", "Q", "R",
          "S", "T", "U", "V", "W", "X", "Y", "Z", "[">>],
     [first |-> 93, chars |-> <<"]", "^", "_">>],
     [first |-> 97, chars |->
        <<"a", "b", "c", "d", "e", "f", "g", "h", "i", "j", "k", "l",
          "m", "n", "o", "p", "q", "r", "s", "t", "u", "v", "w", "x",
          "y", "z", "{", "|", "}", "~">>]}

\* ord(c) of a character written as a one-character string.
Ord(c) ==
    CASE c = "\n" -> 10 [] c = "\t" -> 9 [] c = "\f" -> 12 [] c = "\r" -> 13
      [] OTHER ->
           LET run == CHOOSE r \in AsciiRuns :
                         \E i \in 1..Len(r.chars) : r.chars[i] = c
           IN run.first - 1 + CHOOSE i \in 1..Len(run.chars) : run.chars[i] = c

\* The str written as a sequence of one-character strings.
Text(s) == [i \in 1..Len(s) |-> Ord(s[i])]

\* str.isspace(): the characters str.strip() and str.split() remove.
WhiteSpace ==
    {
     9, 10, 11, 12, 13, 28, 29, 30, 31, 32,
     133, 160, 5760, 8192, 8193, 8194, 8195, 8196, 8197, 8198,
     8199, 8200, 8201, 8202, 8232, 8233, 8239, 8287, 12288 }
IsSpace(c) == c \in WhiteSpace

\* The Unicode decimal digits (category Nd), each run of ten given by its
\* zero: '0' is 48, the Arabic-Indic zero 1632, the fullwidth zero 65296.
DigitZeros ==
    {
     48, 1632, 1776, 1984, 2406, 2534, 2662, 2790, 2918, 3046,
     3174, 3302, 3430, 3558, 3664, 3792, 3872, 4160, 4240, 6112,
     6160, 6470, 6608, 6784, 6800, 6992, 7088, 7232, 7248, 42528,
     43216, 43264, 43472, 43504, 43600, 44016, 65296, 66720, 68912, 69734,
     69872, 69942, 70096, 70384, 70736, 70864, 71248, 71360, 71472, 71904,
     72016, 72784, 73040, 73120, 92768, 92864, 93008, 120782, 120792, 120802,
     120812, 120822, 123200, 123632, 125264, 130032 }
Digits == UNION {z..(z + 9) : z \in DigitZeros}
IsDigit(c) == c \in Digits

\* The decimal value of a digit.
DigitVal(c) == c - CHOOSE z \in DigitZeros : z <= c /\ c <= z + 9

\* The position of the first character that is no whitespace, Len(s) + 1
\* when there is none; the position of the last one, 0 when there is none.
FirstInkOf(s) ==
    IF \E j \in 1..Len(s) : ~IsSpace(s[j])
    THEN CHOOSE j \in 1..Len(s) :
            ~IsSpace(s[j]) /\ \A k \in 1..(j - 1) : IsSpace(s[k])
    ELSE Len(s) + 1
LastInkOf(s) ==
    IF \E j \in 1..Len(s) : ~IsSpace(s[j])
    THEN CHOOSE j \in 1..Len(s) :
            ~IsSpace(s[j]) /\ \A k \in (j + 1)..Len(s) : IsSpace(s[k])
    ELSE 0

LStrip(s) == SubSeq(s, FirstInkOf(s), Len(s))
RStrip(s) == SubSeq(s, 1, LastInkOf(s))

\* line.strip()
Strip(s) == RStrip(LStrip(s))

\* s.startswith(p)
StartsWith(s, p) == Len(s) >= Len(p) /\ SubSeq(s, 1, Len(p)) = p

\* The first run of non-whitespace characters of s, s having no leading whitespace.
FirstWord(s) ==
    IF \E j \in 1..Len(s) : IsSpace(s[j])
    THEN SubSeq(s, 1, (CHOOSE j \in 1..Len(s) :
                          IsSpace(s[j]) /\ \A k \in 1..(j - 1) : ~IsSpace(s[k])) - 1)
    ELSE s

\* line.split(): the maximal runs of non-whitespace characters, in order.
RECURSIVE Split(_)
Split(s) ==
    LET t == LStrip(s) IN
    IF t = <<>> THEN <<>>
    ELSE LET w == FirstWord(t)
         IN <<w>> \o Split(SubSeq(t, Len(w) + 1, Len(t)))

Dot == Ord(".")

\* The position of the first '.' of tok, Len(tok) + 1 when there is none.
FirstDot(tok) ==
    IF \E j \in 1..Len(tok) : tok[j] = Dot
    THEN CHOOSE j \in 1..Len(tok) :
            tok[j] = Dot /\ \A k \in 1..(j - 1) : tok[k] # Dot
    ELSE Len(tok) + 1

\* tok.split('.')[0]: the characters before the first '.'.
BeforeDot(tok) == SubSeq(tok, 1, FirstDot(tok) - 1)

\* The characters after the first '.', <<>> when there is none.
AfterDot(tok) == SubSeq(tok, FirstDot(tok) + 1, Len(tok))

\* The number written by at most 9 digits.
RECURSIVE DigitsVal(_)
DigitsVal(ds) ==
    IF ds = <<>> THEN 0
    ELSE 10 * DigitsVal(SubSeq(ds, 1, Len(ds) - 1)) + DigitVal(ds[Len(ds)])

----------------------------------------------------------------------------
(* Natural numbers of any size, for float(): the sequence of the digits in *)
(* base 1024, the lowest first, without high zeros; 0 is <<>>              *)

Base == 1024

Limb(a, i) == IF i <= Len(a) THEN a[i] ELSE 0

\* a without its high zeros.
BigTrim(a) ==
    IF \A i \in 1..Len(a) : a[i] = 0 THEN <<>>
    ELSE SubSeq(a, 1, CHOOSE t \in 1..Len(a) :
                         a[t] # 0 /\ \A u \in (t + 1)..Len(a) : a[u] = 0)

\* 0 <= n < 2^31
BigFromInt(n) ==
    BigTrim(<<n % Base, (n \div Base) % Base, (n \div (Base * Base)) % Base,
              n \div (Base * Base * Base)>>)

RECURSIVE BigToInt(_)
BigToInt(a) == IF a = <<>> THEN 0 ELSE Head(a) + Base * BigToInt(Tail(a))

BigLe(a, b) ==
    \/ Len(a) < Len(b)
    \/ /\ Len(a) = Len(b)
       /\ \A i \in 1..Len(a) :
             (\A j \in (i + 1)..Len(a) : a[j] = b[j]) => a[i] <= b[i]
BigLt(a, b) == BigLe(a, b) /\ a # b

\* a + b: the digit sums, then the carries: a carry enters digit i when a
\* lower digit sum overflows and every digit sum in between is Base - 1.
DigitSums(a, b) ==
    SubSeq([i \in 1..(Max2(Len(a), Len(b)) + 1) |-> Limb(a, i) + Limb(b, i)],
           1, Max2(Len(a), Len(b)) + 1)
CarryInto(s, i) ==
    \E j \in 1..(i - 1) :
        s[j] >= Base /\ \A k \in (j + 1)..(i - 1) : s[k] = Base - 1
Carried(s) ==
    BigTrim(SubSeq([i \in 1..Len(s) |->
                       (s[i] + IF CarryInto(s, i) THEN 1 ELSE 0) % Base],
                   1, Len(s)))
BigAdd(a, b) ==
    IF a = <<>> THEN BigTrim(b)
    ELSE IF b = <<>> THEN BigTrim(a)
    ELSE Carried(DigitSums(a, b))

\* a - b for a >= b, with the borrows found the same way.
DigitDiffs(a, b) == SubSeq([i \in 1..Len(a) |-> a[i] - Limb(b, i)], 1, Len(a))
BorrowInto(d, i) ==
    \E j \in 1..(i - 1) : d[j] < 0 /\ \A k \in (j + 1)..(i - 1) : d[k] = 0
Borrowed(d) ==
    BigTrim(SubSeq([i \in 1..Len(d) |->
                       (d[i] - (IF BorrowInto(d, i) THEN 1 ELSE 0) + Base) % Base],
                   1, Len(d)))
BigSub(a, b) == IF b = <<>> THEN a ELSE Borrowed(DigitDiffs(a, b))

\* a with j zero digits put below it: a * Base^j.
ShiftDigits(a, j) == IF a = <<>> THEN <<>> ELSE [i \in 1..j |-> 0] \o a

\* The sum of a[i] * b[k - i + 1] for i in lo..hi: a part of column k of the
\* long multiplication.
RECURSIVE ColumnSum(_, _, _, _, _)
ColumnSum(a, b, k, lo, hi) ==
    IF lo > hi THEN 0
    ELSE IF lo = hi THEN a[lo] * b[k - lo + 1]
    ELSE ColumnSum(a, b, k, lo, (lo + hi) \div 2)
         + ColumnSum(a, b, k, (lo + hi) \div 2 + 1, hi)

\* a * b: the column sums (each below 2^31, a and b having fewer than 2048
\* digits), then the sum of their digits, each at its place.
ColumnSums(a, b) ==
    SubSeq([k \in 1..(Len(a) + Len(b) - 1) |->
               ColumnSum(a, b, k, Max2(1, k - Len(b) + 1), Min2(Len(a), k))],
           1, Len(a) + Len(b) - 1)
ColumnDigit(col, e) ==
    SubSeq([k \in 1..Len(col) |-> (col[k] \div e) % Base], 1, Len(col))
SumColumns(col) ==
    BigAdd(BigAdd(ColumnDigit(col, 1), <<0>> \o ColumnDigit(col, Base)),
           BigAdd(<<0, 0>> \o ColumnDigit(col, Base * Base),
                  <<0, 0, 0>> \o ColumnDigit(col, Base * Base * Base)))
BigMul(a, b) == IF a = <<>> \/ b = <<>> THEN <<>> ELSE SumColumns(ColumnSums(a, b))

RECURSIVE Pow2(_)
Pow2(k) == IF k = 0 THEN 1 ELSE 2 * Pow2(k - 1)

\* b, b^2, b^4, ..., b^(2^n)
RECURSIVE Squares(_, _)
Squares(b, n) ==
    IF n = 0 THEN <<b>>
    ELSE <<b>> \o Squares(BigMul(b, b), n - 1)

\* 5^(2^i) for i in 0..10, and 5^n for n < 2048: the product of the
\* 5^(2^i) over the binary digits i of n that are 1, here those in lo..hi.
FivePowers == Squares(<<5>>, 10)
RECURSIVE PowProduct(_, _, _)
PowProduct(n, lo, hi) ==
    IF lo = hi
    THEN IF (n \div Pow2(lo)) % 2 = 1 THEN FivePowers[lo + 1] ELSE <<1>>
    ELSE BigMul(PowProduct(n, lo, (lo + hi) \div 2),
                PowProduct(n, (lo + hi) \div 2 + 1, hi))
Pow5(n) == PowProduct(n, 0, 10)

\* a * 2^s, and the whole part of a / 2^s.
BigShl(a, s) == ShiftDigits(BigMul(a, <<Pow2(s % 10)>>), s \div 10)
BigShr(a, s) ==
    LET w == s \div 10
        b == s % 10
        n == Len(a) - w
    IN BigTrim(SubSeq([i \in 1..n |->
                          (a[w + i] \div Pow2(b))
                          + (Limb(a, w + i + 1) % Pow2(b)) * Pow2(10 - b)], 1, n))

\* The number of binary digits of a, and of its low zero binary digits (a > 0).
BitLen(a) ==
    IF a = <<>> THEN 0
    ELSE 10 * (Len(a) - 1)
         + CHOOSE b \in 1..10 : Pow2(b - 1) <= a[Len(a)] /\ a[Len(a)] < Pow2(b)
LowZeros(a) ==
    LET j == CHOOSE i \in 1..Len(a) : a[i] # 0 /\ \A k \in 1..(i - 1) : a[k] = 0
    IN 10 * (j - 1)
       + CHOOSE b \in 0..9 : a[j] % Pow2(b) = 0 /\ a[j] % Pow2(b + 1) # 0

\* The number written by a sequence of digits, the highest first, and the
\* power of ten of its length: those of its two halves joined.
RECURSIVE Pow10(_)
Pow10(k) == IF k = 0 THEN 1 ELSE 10 * Pow10(k - 1)
JoinDigits(hi, lo) ==
    [pow |-> BigMul(hi.pow, lo.pow),
     val |-> BigAdd(BigMul(hi.val, lo.pow), lo.val)]
RECURSIVE ValueAndPower(_)
ValueAndPower(ds) ==
    IF Len(ds) <= 9
    THEN [pow |-> BigFromInt(Pow10(Len(ds))), val |-> BigFromInt(DigitsVal(ds))]
    ELSE JoinDigits(ValueAndPower(SubSeq(ds, 1, Len(ds) \div 2)),
                    ValueAndPower(SubSeq(ds, Len(ds) \div 2 + 1, Len(ds))))
BigFromDigits(ds) == ValueAndPower(ds).val

\* Long division.  The next digit of a quotient, r being below Base * b: the
\* d with d * b <= r < (d + 1) * b.  Without their s lowest digits r and b
\* are ints R and B with R / (B + 1) < r / b < (R + 1) / B, which leaves a
\* few d to try (B has two digits); for s = 0 the digit is R / B.
HighDigits(a, s) == BigToInt(SubSeq(a, s + 1, Len(a)))
DigitBetween(r, b, lo, hi) ==
    CHOOSE d \in lo..hi :
        BigLe(BigMul(b, <<d>>), r) /\ BigLt(r, BigMul(b, <<d + 1>>))
QuotDigit(r, b) ==
    IF Len(b) <= 2 THEN BigToInt(r) \div BigToInt(b)
    ELSE DigitBetween(r, b,
                      HighDigits(r, Len(b) - 2) \div (HighDigits(b, Len(b) - 2) + 1),
                      Min2((HighDigits(r, Len(b) - 2) + 1) \div HighDigits(b, Len(b) - 2),
                           Base - 1))

\* The digits a[j], ..., a[1] brought down one by one onto the rest r, q being
\* the digits of the quotient so far.
RECURSIVE QuotFrom(_, _, _, _, _)
QuotFrom(a, b, j, q, r) ==
    IF j = 0 THEN q
    ELSE LET r1 == BigTrim(<<a[j]>> \o r)
             d == QuotDigit(r1, b)
         IN IF d = 0 THEN QuotFrom(a, b, j - 1, <<0>> \o q, r1)
            ELSE QuotFrom(a, b, j - 1, <<d>> \o q, BigSub(r1, BigMul(b, <<d>>)))

\* The whole quotient of a by b > 0: the highest Len(b) - 1 digits of a are
\* below b, the other digits are brought down.
Quot(a, b) ==
    IF Len(a) < Len(b) THEN <<>>
    ELSE BigTrim(QuotFrom(a, b, Len(a) - Len(b) + 1, <<>>,
                          SubSeq(a, Len(a) - Len(b) + 2, Len(a))))

----------------------------------------------------------------------------
(* float(x) of a str: the IEEE-754 double nearest to the decimal written.  *)
(* A finite double is sign * mant * 2^exp with mant odd (or 0, exp 0)      *)

Double(sign, mant, exp) == [kind |-> "finite", sign |-> sign, mant |-> mant, exp |-> exp]
DoubleInf(sign) == [kind |-> "inf", sign |-> sign, mant |-> <<>>, exp |-> 0]
DoubleNaN == [kind |-> "nan", sign |-> 1, mant |-> <<>>, exp |-> 0]

\* The least and the greatest exponent of the last binary digit of a double,
\* and the number of binary digits of its mantissa.
MinExp == -1074
MaxExp == 971
MantBits == 53

\* The e with 2^e <= num / den < 2^(e + 1).
BinExp(num, den) ==
    LET g == BitLen(num) - BitLen(den)
    IN IF (IF g >= 0 THEN BigLe(BigShl(den, g), num)
                     ELSE BigLe(den, BigShl(num, -g)))
       THEN g ELSE g - 1

\* The double sign * m * 2^u of a mantissa m of at most 54 binary digits:
\* inf from 2^1024 on.
DoubleOf(sign, m, u) ==
    IF m = <<>> THEN Double(sign, <<>>, 0)
    ELSE IF BitLen(m) + u > MaxExp + MantBits THEN DoubleInf(sign)
    ELSE Double(sign, BigShr(m, LowZeros(m)), u + LowZeros(m))

\* Whether a / b, of whole part q and twice the rest rest2, rounds up to
\* q + 1: an odd q from the middle on, an even q above the middle.
RoundsUp(q, b, rest2) ==
    IF q # <<>> /\ q[1] % 2 = 1 THEN BigLe(b, rest2) ELSE BigLt(b, rest2)
RoundQuot(sign, a, b, u, q) ==
    DoubleOf(sign,
             IF RoundsUp(q, b, BigShl(BigSub(a, BigMul(q, b)), 1))
             THEN BigAdd(q, <<1>>) ELSE q,
             u)

\* sign * a / b * 2^u rounded to a whole number of 2^u.
RoundRatio(sign, a, b, u) == RoundQuot(sign, a, b, u, Quot(a, b))

\* sign * num / den * 2^x rounded to a whole number of 2^u.
RoundAt(sign, num, den, x, u) ==
    RoundRatio(sign,
               IF x >= u THEN BigShl(num, x - u) ELSE num,
               IF x >= u THEN den ELSE BigShl(den, u - x),
               u)

\* sign * num / den * 2^x (num, den > 0) rounded to the nearest double, a tie
\* to the even mantissa: the last binary digit kept is the 53rd, or that of
\* the subnormal doubles; inf from 2^1024 - 2^970 on, 0.0 up to 2^-1075.
RoundToDouble(sign, num, den, x) ==
    RoundAt(sign, num, den, x,
            Max2(BinExp(num, den) + x - (MantBits - 1), MinExp))

\* str.lower() on the letters float() looks at.
Lower(c) == IF 65 <= c /\ c <= 90 THEN c + 32 ELSE c
LowerSeq(tok) == [j \in 1..Len(tok) |-> Lower(tok[j])]

\* float() first writes every Unicode decimal digit as its ASCII digit.
ToAscii(tok) ==
    [j \in 1..Len(tok) |-> IF IsDigit(tok[j]) THEN 48 + DigitVal(tok[j]) ELSE tok[j]]

AsciiDigits == 48..57
Underscore == Ord("_")
LetterE == Ord("e")

\* A token without its sign, and the sign.
HasSign(tok) == tok # <<>> /\ tok[1] \in {Ord("+"), Ord("-")}
Unsigned(tok) == IF HasSign(tok) THEN Tail(tok) ELSE tok
SignOf(tok) == IF tok # <<>> /\ tok[1] = Ord("-") THEN -1 ELSE 1

\* 'inf', 'infinity' and 'nan', in any case.
InfWords ==
    {Text(<<"i", "n", "f">>), Text(<<"i", "n", "f", "i", "n", "i", "t", "y">>)}
NaNWord == Text(<<"n", "a", "n">>)

\* Digits, single underscores allowed between two digits ('1_000').
DigitGroup(ds) ==
    /\ ds # <<>>
    /\ \A j \in 1..Len(ds) : ds[j] \in AsciiDigits \cup {Underscore}
    /\ ds[1] \in AsciiDigits /\ ds[Len(ds)] \in AsciiDigits
    /\ \A j \in 1..(Len(ds) - 1) : ~(ds[j] = Underscore /\ ds[j + 1] = Underscore)
WithoutUnderscores(ds) == SelectSeq(ds, LAMBDA c : c # Underscore)

\* The position of the first 'e' or 'E', Len(tok) + 1 when there is none; the
\* characters before it, and those after it.
FirstExp(tok) ==
    IF \E j \in 1..Len(tok) : Lower(tok[j]) = LetterE
    THEN CHOOSE j \in 1..Len(tok) :
            Lower(tok[j]) = LetterE /\ \A k \in 1..(j - 1) : Lower(tok[k]) # LetterE
    ELSE Len(tok) + 1
BeforeExp(tok) == SubSeq(tok, 1, FirstExp(tok) - 1)
AfterExp(tok) == SubSeq(tok, FirstExp(tok) + 1, Len(tok))
HasExp(tok) == \E j \in 1..Len(tok) : Lower(tok[j]) = LetterE
HasDot(tok) == \E j \in 1..Len(tok) : tok[j] = Dot

\* digits, digits '.', '.' digits or digits '.' digits
IsMantissa(m) ==
    IF HasDot(m)
    THEN /\ BeforeDot(m) = <<>> \/ DigitGroup(BeforeDot(m))
         /\ AfterDot(m) = <<>> \/ DigitGroup(AfterDot(m))
         /\ BeforeDot(m) # <<>> \/ AfterDot(m) # <<>>
    ELSE DigitGroup(m)

\* Whether float(tok) returns, tok holding no whitespace: an optional sign,
\* then inf, infinity or nan, or a decimal with an optional exponent (float
\* raises ValueError on the rest).
IsNumeric(tok) ==
    LET u == Unsigned(ToAscii(tok)) IN
    \/ LowerSeq(u) \in InfWords \cup {NaNWord}
    \/ /\ IsMantissa(BeforeExp(u))
       /\ HasExp(u) => DigitGroup(Unsigned(AfterExp(u)))

\* A sequence of digits without its leading zeros.
StripZeros(ds) ==
    IF \E j \in 1..Len(ds) : ds[j] # 48
    THEN SubSeq(ds, CHOOSE j \in 1..Len(ds) :
                       ds[j] # 48 /\ \A k \in 1..(j - 1) : ds[k] = 48,
                Len(ds))
    ELSE <<>>

\* The digits of the exponent of a token, <<>> when it has none or it is 0.
ExpDigits(u) ==
    IF HasExp(u) THEN StripZeros(WithoutUnderscores(Unsigned(AfterExp(u)))) ELSE <<>>

\* Decimal exponents at which a decimal 0.d1 d2 ... * 10^p with d1 > 0 is
\* beyond the doubles: inf from 10^309 on, 0.0 below 10^-324.
InfFromExp10 == 310
ZeroUpToExp10 == -324

\* A point at which the rounding changes (the middle of two doubles, the
\* least decimal read as inf, the greatest read as 0.0) has at most 768
\* significant digits: the digits after the first 800 count only by whether
\* one of them is not 0, which a last digit 1 in their place says as well.
MaxSigDigits == 800
Significant(sig) ==
    IF Len(sig) <= MaxSigDigits THEN sig
    ELSE IF \A j \in (MaxSigDigits + 1)..Len(sig) : sig[j] = 48
         THEN SubSeq(sig, 1, MaxSigDigits)
         ELSE SubSeq(sig, 1, MaxSigDigits) \o <<49>>

\* sign * n * 10^k as a double, for -2048 < k < 2048.
ScaleToDouble(sign, n, k) ==
    RoundToDouble(sign, BigMul(n, Pow5(Max2(k, 0))), Pow5(Max2(-k, 0)), k)

\* pos - neg
Minus(pos, neg) ==
    IF BigLe(neg, pos) THEN BigToInt(BigSub(pos, neg))
    ELSE -BigToInt(BigSub(neg, pos))

\* sign * 0.sig * 10^(pos - neg) as a double, sig starting with no 0.
DecimalToDouble(sign, sig, pos, neg) ==
    IF BigLe(BigAdd(neg, BigFromInt(InfFromExp10)), pos) THEN DoubleInf(sign)
    ELSE IF BigLe(BigAdd(pos, BigFromInt(-ZeroUpToExp10)), neg)
         THEN Double(sign, <<>>, 0)
    ELSE ScaleToDouble(sign, BigFromDigits(Significant(sig)),
                       Minus(pos, neg) - Len(Significant(sig)))

\* The decimal of digits sig, nfrac of them after the point, times ten to
\* the power esign * e.
DigitsToDouble(sign, sig, nfrac, esign, e) ==
    IF StripZeros(sig) = <<>> THEN Double(sign, <<>>, 0)
    ELSE DecimalToDouble(sign, StripZeros(sig),
                         BigAdd(BigFromInt(Len(StripZeros(sig))),
                                IF esign = 1 THEN e ELSE <<>>),
                         BigAdd(BigFromInt(nfrac), IF esign = 1 THEN <<>> ELSE e))

\* The digits of a mantissa before and after the point.
WholeDigits(m) == WithoutUnderscores(BeforeDot(m))
FracDigits(m) == WithoutUnderscores(AfterDot(m))

\* float(tok) of a numeric token.
ParseFloat(tok) ==
    LET u == Unsigned(ToAscii(tok))
    IN IF LowerSeq(u) \in InfWords THEN DoubleInf(SignOf(tok))
       ELSE IF LowerSeq(u) = NaNWord THEN DoubleNaN
       ELSE DigitsToDouble(SignOf(tok),
                           WholeDigits(BeforeExp(u)) \o FracDigits(BeforeExp(u)),
                           Len(FracDigits(BeforeExp(u))),
                           SignOf(AfterExp(u)),
                           BigFromDigits(ExpDigits(u)))

----------------------------------------------------------------------------
(* The LAS parsing script *)

\* '~Curve Information Block' and '~ASCII', abbreviated.
CurveMarker == Text(<<"~", "C">>)
AsciiMarker == Text(<<"~", "A">>)
\* '#'
CommentMark == Text(<<"#">>)

\* lines[a:b] for 0 <= a, on 0-based indices.
PySlice(s, a, b) == SubSeq(s, a + 1, Min2(b, Len(s)))

\* The for loop over enumerate(lines) from index i on, curve_start being cs:
\* the last curve marker seen wins, the first ~ASCII line ends the loop.
RECURSIVE ScanFrom(_, _, _)
ScanFrom(ls, i, cs) ==
    IF i >= Len(ls) THEN [curve_start |-> cs, ascii_start |-> None]
    ELSE LET line == ls[i + 1]
             cs2 == IF StartsWith(Strip(line), CurveMarker) THEN Some(i) ELSE cs
         IN IF StartsWith(Strip(line), AsciiMarker)
            THEN [curve_start |-> cs2, ascii_start |-> Some(i + 1)]
            ELSE ScanFrom(ls, i + 1, cs2)

\* curve_start = None before the loop.
InitialCurveStart == None

FindSections(ls) == ScanFrom(ls, 0, InitialCurveStart)

\* The upper end of the slice of curve lines (the mutant keeps the marker line).
CurveSliceEndOffByOne(as) == as
CurveSliceEnd(as) == as - 1

\* The mutant tests line.startswith('#') on the untrimmed line.
RECURSIVE NamesOfUntrimmedComment(_)
NamesOfUntrimmedComment(ls) ==
    IF ls = <<>> THEN <<>>
    ELSE LET line == Head(ls)
             parts == Split(line)
         IN IF StartsWith(line, CommentMark) \/ Strip(line) = <<>>
            THEN NamesOfUntrimmedComment(Tail(ls))
            ELSE IF Len(parts) > 0
                 THEN <<BeforeDot(parts[1])>> \o NamesOfUntrimmedComment(Tail(ls))
                 ELSE NamesOfUntrimmedComment(Tail(ls))

\* The loop over lines[curve_start+1:ascii_start-1].
RECURSIVE NamesOf(_)
NamesOf(ls) ==
    IF ls = <<>> THEN <<>>
    ELSE LET line == Head(ls)
             parts == Split(line)
         IN IF StartsWith(Strip(line), CommentMark) \/ Strip(line) = <<>>
            THEN NamesOf(Tail(ls))
            ELSE IF Len(parts) > 0
                 THEN <<BeforeDot(parts[1])>> \o NamesOf(Tail(ls))
                 ELSE NamesOf(Tail(ls))

ParseCurveNamesOf(ls, cs, as) == NamesOf(PySlice(ls, cs + 1, CurveSliceEnd(as)))

\* [float(x) for x in line.split()]
RowOf(line) == [j \in 1..Len(Split(line)) |-> ParseFloat(Split(line)[j])]
RowParses(line) == \A j \in 1..Len(Split(line)) : IsNumeric(Split(line)[j])

\* The loop over lines[ascii_start:]: the rows of the non-blank lines,
\* appended one by one up to the first line on which float raises.
RECURSIVE RowsOf(_)
RowsOf(ls) ==
    IF ls = <<>> THEN <<>>
    ELSE IF Strip(Head(ls)) # <<>>
         THEN IF RowParses(Head(ls))
              THEN <<RowOf(Head(ls))>> \o RowsOf(Tail(ls))
              ELSE <<>>
         ELSE RowsOf(Tail(ls))

DataLines(ls, as) == SubSeq(ls, as + 1, Len(ls))

\* Whether float raises on some token of a non-blank data line.
DataRaises(ls, as) ==
    \E j \in 1..Len(DataLines(ls, as)) :
        /\ Strip(DataLines(ls, as)[j]) # <<>>
        /\ ~RowParses(DataLines(ls, as)[j])

RECURSIVE MaxWidth(_)
MaxWidth(rows) ==
    IF rows = <<>> THEN 0 ELSE Max2(Len(Head(rows)), MaxWidth(Tail(rows)))

\* pandas pads a short row of a list of lists with NaN up to the widest row.
PadRow(row, w) == [j \in 1..w |-> IF j <= Len(row) THEN row[j] ELSE DoubleNaN]

\* pd.DataFrame(rows, columns=names) raises ValueError when the widest row and
\* the columns differ in number (an empty list of rows has no width to check).
FrameRaises(rows, names) == rows # <<>> /\ MaxWidth(rows) # Len(names)

Frame(rows, names) ==
    [columns |-> names,
     rows |-> [r \in 1..Len(rows) |-> PadRow(rows[r], Len(names))]]

----------------------------------------------------------------------------
(* The files read *)

BlankLine == Text(<<"\f", "\n">>)
CommentLine == Text(<<" ", "#", "c", "\n">>)
CurveMarkerLine == Text(<<"~", "C", "\n">>)
AsciiMarkerLine == Text(<<"~", "A", "\n">>)
\* '-1.5', the whitespace U+1680, the Arabic-Indic digit two U+0662, '\n'
TwoFieldLine == Text(<<"-", "1", ".", "5">>) \o <<5760, 1634, 10>>
OneFieldLine == Text(<<"3", "\n">>)

\* The lines a file is made of.  A line is read the same way wherever it
\* stands: in the curve block TwoFieldLine declares the mnemonic "-1" and
\* OneFieldLine the mnemonic "3"; in the data block they are rows of two
\* fields and of one, and CommentLine is a row whose token is no number.
LineShapes ==
    {BlankLine, CommentLine, CurveMarkerLine, AsciiMarkerLine,
     TwoFieldLine, OneFieldLine}

Files == UNION {[1..n -> LineShapes] : n \in 0..MaxLines}

----------------------------------------------------------------------------
(* The script as a state machine *)

\* visualization.py 144-151
ScanSections ==
    /\ pc = "scan"
    /\ curve_start' = FindSections(lines).curve_start
    /\ ascii_start' = FindSections(lines).ascii_start
    /\ pc' = "names"
    /\ UNCHANGED <<lines, curve_names, data, df, err>>
    /\ UNCHANGED <<plotVars, procVars>>

\* visualization.py 154-160: None + 1 and None - 1 raise TypeError.
ParseCurveNames ==
    /\ pc = "names"
    /\ IF curve_start = None \/ ascii_start = None
       THEN /\ err' = "TypeError"
            /\ pc' = "failed"
            /\ UNCHANGED curve_names
       ELSE /\ curve_names' =
                   ParseCurveNamesOf(lines, Val(curve_start), Val(ascii_start))
            /\ pc' = "data"
            /\ UNCHANGED err
    /\ UNCHANGED <<lines, curve_start, ascii_start, data, df>>
    /\ UNCHANGED <<plotVars, procVars>>

\* visualization.py 163-166: float raises ValueError on a token that is no
\* number; data then holds the rows appended before that line.
ParseData ==
    /\ pc = "data"
    /\ data' = RowsOf(DataLines(lines, Val(ascii_start)))
    /\ IF DataRaises(lines, Val(ascii_start))
       THEN /\ err' = "ValueError"
            /\ pc' = "failed"
       ELSE /\ pc' = "frame"
            /\ UNCHANGED err
    /\ UNCHANGED <<lines, curve_start, ascii_start, curve_names, df>>
    /\ UNCHANGED <<plotVars, procVars>>

\* visualization.py 168
BuildFrame ==
    /\ pc = "frame"
    /\ IF FrameRaises(data, curve_names)
       THEN /\ err' = "ValueError"
            /\ pc' = "failed"
            /\ UNCHANGED df
       ELSE /\ df' = Some(Frame(data, curve_names))
            /\ pc' = "done"
            /\ UNCHANGED err
    /\ UNCHANGED <<lines, curve_start, ascii_start, curve_names, data>>
    /\ UNCHANGED <<plotVars, procVars>>

ParseNext == ScanSections \/ ParseCurveNames \/ ParseData \/ BuildFrame

----------------------------------------------------------------------------
(* The plotting functions: crossplots.py and visualization.py *)

\* The tables passed: rows of a depth, a neutron porosity and a bulk density.
Row(dept, neu, den) == [DEPT |-> dept, NEU |-> neu, DEN |-> den]
RowShapes ==
    {Row(Frac(-10, 1), Frac(20, 100), Frac(265, 100)),
     Row(Frac(50, 1), Frac(20, 100), Frac(100, 100)),
     Row(Frac(150, 1), Frac(20, 100), Frac(300, 100)),
     Row(Frac(250, 1), Frac(20, 100), Frac(200, 100)),
     Row(Frac(100, 1), Frac(30, 100), Frac(265, 100)),
     Row(Frac(100, 1), Null, Frac(265, 100)),
     Row(Frac(150, 1), Frac(20, 100), Null)}
Tables == UNION {[1..n -> RowShapes] : n \in 0..MaxRows}
Columns == {"DEPT", "NEU", "DEN"}

\* The formation tops passed: a dict, here the depths in insertion order, the
\* key of the i-th entry being KeyNames[i].
KeyNames == <<"A", "B", "C", "D", "E">>
TopDepths == {Frac(0, 1), Frac(100, 1), Frac(200, 1)}
TopsDicts == UNION {[1..n -> TopDepths] : n \in 0..MaxTops}
\* The matrix and fluid densities passed; 2.65 and 1.0 are the defaults.
Densities == {Frac(265, 100), Frac(100, 100)}
\* The log_tracks passed; GR is no column of the tables.
TrackLists == {<< <<"NEU">> >>, << <<"DEN", "GR">>, <<"NEU">> >>}

ColumnValues(t, col) == {t[r][col] : r \in 1..Len(t)}

\* crossplots.py 67: the rows whose neutron and density are not the null value.
NotNull(row) == FNe(row.NEU, Null) /\ FNe(row.DEN, Null)
ValidRows(t) == SelectSeq(t, NotNull)

\* np.argsort(depth_list): the orders that sort the depths.  Which of two equal
\* depths comes first is up to numpy's sort kernel.
ArgSorts(dl) ==
    {p \in Permutations(1..Len(dl)) :
        \A i, j \in 1..Len(dl) : i < j => FLe(dl[p[i]], dl[p[j]])}

\* The test of the loop (the mutant tests depth > top_depth).
AtOrBelowStrict(depth, top_depth) == FLt(top_depth, depth)
AtOrBelow(depth, top_depth) == FGe(depth, top_depth)

\* crossplots.py 94-97: formation_idx after the loop over enumerate(depth_list),
\* from position i on, its value so far being idx.
RECURSIVE FormationIdx(_, _, _, _)
FormationIdx(depth, depth_list, i, idx) ==
    IF i >= Len(depth_list) THEN idx
    ELSE FormationIdx(depth, depth_list, i + 1,
                      IF AtOrBelow(depth, depth_list[i + 1]) THEN i ELSE idx)

\* crossplots.py 69: the test for the empty result (the mutant never returns).
NoValidDataNever(valid) == FALSE
NoValidData(valid) == Len(valid) = 0

\* crossplots.py 32-135
NeutronDensityCrossplot ==
    /\ fn = "none"
    /\ \E tops \in {None} \cup {Some(d) : d \in TopsDicts} :
         LET valid == ValidRows(table) IN
         /\ fn' = "neutron_density_crossplot"
         /\ formation_tops' = tops
         /\ valid_data' = valid
         /\ IF NoValidData(valid)
            THEN /\ ret' = "NoData"
                 /\ figures' = 0
                 /\ labels' = <<>>
                 /\ plotted' = {}
            ELSE /\ figures' = 1
                 /\ IF tops # None
                    THEN \E p \in ArgSorts(Val(tops)) :
                           LET formation_list == [i \in 1..Len(p) |-> KeyNames[p[i]]]
                               depth_list == [i \in 1..Len(p) |-> Val(tops)[p[i]]]
                           IN IF Len(Val(tops)) = 0
                              \* formation_colors[0] of an empty array
                              THEN /\ ret' = "IndexError"
                                   /\ labels' = <<>>
                                   /\ plotted' = {}
                              ELSE /\ ret' = "Figure"
                                   /\ labels' =
                                        [r \in 1..Len(valid) |->
                                            formation_list[
                                                FormationIdx(valid[r].DEPT,
                                                             depth_list, 0, 0) + 1]]
                                   /\ plotted' = ColumnValues(valid, "NEU")
                                                 \cup ColumnValues(valid, "DEN")
                    ELSE /\ ret' = "Figure"
                         /\ labels' = <<>>
                         /\ plotted' = ColumnValues(valid, "NEU")
                                       \cup ColumnValues(valid, "DEN")
                                       \cup ColumnValues(valid, "DEPT")
    /\ UNCHANGED <<table, matrix_density, fluid_density, log_tracks, column_args,
                   df_calc, stat_values, ranges>>
    /\ UNCHANGED <<parseVars, procVars>>

\* crossplots.py 215-216: the density porosity of a bulk density.
DensityPorosity(den, m, f) == Clip(FDiv(FSub(m, den), FSub(m, f)), Zero, One)

\* crossplots.py 219-224
PorosityKeep(row) ==
    /\ FNe(row.NEU, Null)
    /\ FNe(row.DEN, Null)
    /\ FGe(row.PHID, Zero)
    /\ FLe(row.PHID, One)

\* crossplots.py 213: df_calc = df.copy() is a new frame, so the PHID column
\* assigned to df_calc at 214-215 is no column of the caller's df.  The
\* caller's frame after the assignments, df_calc being the frame they made
\* (the mutant binds df_calc to df itself, without the copy).
CallerFrameAliased(frame, calc) == calc
CallerFrame(frame, calc) == frame

\* crossplots.py 179-258
PorosityEstimationPlot ==
    /\ fn = "none"
    /\ \E m \in Densities, f \in Densities :
         LET calc == [r \in 1..Len(table) |->
                        [DEPT |-> table[r].DEPT, NEU |-> table[r].NEU,
                         DEN |-> table[r].DEN,
                         PHID |-> DensityPorosity(table[r].DEN, m, f)]]
             valid == SelectSeq(calc, PorosityKeep)
         IN /\ fn' = "porosity_estimation_plot"
            /\ matrix_density' = m
            /\ fluid_density' = f
            /\ df_calc' = calc
            /\ valid_data' = valid
            /\ figures' = 1
            /\ plotted' = ColumnValues(valid, "NEU") \cup ColumnValues(valid, "DEPT")
                          \cup ColumnValues(valid, "PHID")
            /\ ret' = "Figure"
            /\ table' = CallerFrame(table, calc)
    /\ UNCHANGED <<formation_tops, log_tracks, column_args, labels, stat_values,
                   ranges>>
    /\ UNCHANGED <<parseVars, procVars>>

\* The logs of log_tracks that are columns of the table.
LogsPlotted(tracks) ==
    {log \in Columns : \E i \in 1..Len(tracks) : \E j \in 1..Len(tracks[i]) :
                          tracks[i][j] = log}

\* visualization.py 29-88, called with depth_col = "DEPT"
PlotWellLogTracks ==
    /\ fn = "none"
    /\ \E tracks \in TrackLists :
         /\ fn' = "plot_well_log_tracks"
         /\ log_tracks' = tracks
         /\ figures' = 1
         /\ plotted' = UNION {ColumnValues(table, log) \cup ColumnValues(table, "DEPT") :
                                 log \in LogsPlotted(tracks)}
         /\ ret' = "None"
    /\ UNCHANGED <<table, formation_tops, matrix_density, fluid_density,
                   column_args, df_calc, valid_data, labels, stat_values, ranges>>
    /\ UNCHANGED <<parseVars, procVars>>

\* visualization.py 211-256: the script's own copy of the track plot, with
\* its fixed log_tracks; the tops are drawn as lines at their depths.
MainLogTracks ==
    << <<"CALI", "BS">>, <<"GR">>, <<"DEN">>, <<"NEU">>, <<"AC", "ACS">>,
       <<"RMIC", "RMED", "RDEP">> >>
MainTrackPanel ==
    /\ fn = "none"
    /\ fn' = "main_track_panel"
    /\ log_tracks' = MainLogTracks
    /\ figures' = 1
    /\ plotted' = UNION {ColumnValues(table, log) \cup ColumnValues(table, "DEPT") :
                            log \in LogsPlotted(MainLogTracks)}
    /\ ret' = "None"
    /\ UNCHANGED <<table, formation_tops, matrix_density, fluid_density,
                   column_args, df_calc, valid_data, labels, stat_values, ranges>>
    /\ UNCHANGED <<parseVars, procVars>>

\* The column names passed to plot_histogram and plot_scatter; GR is no
\* column of the tables, and data['GR'] raises KeyError.
ColumnArgs == Columns \cup {"GR"}

\* visualization.py 90-97: plt.figure, then plt.hist(data[column]).
PlotHistogram ==
    /\ fn = "none"
    /\ \E column \in ColumnArgs :
         /\ fn' = "plot_histogram"
         /\ column_args' = <<column>>
         /\ figures' = 1
         /\ IF column \in Columns
            THEN /\ plotted' = ColumnValues(table, column)
                 /\ ret' = "None"
            ELSE /\ plotted' = {}
                 /\ ret' = "KeyError"
    /\ UNCHANGED <<table, formation_tops, matrix_density, fluid_density, log_tracks,
                   df_calc, valid_data, labels, stat_values, ranges>>
    /\ UNCHANGED <<parseVars, procVars>>

\* visualization.py 99-106: plt.figure, then
\* plt.scatter(data[x_column], data[y_column]).
PlotScatter ==
    /\ fn = "none"
    /\ \E x_column \in ColumnArgs, y_column \in ColumnArgs :
         /\ fn' = "plot_scatter"
         /\ column_args' = <<x_column, y_column>>
         /\ figures' = 1
         /\ IF x_column \in Columns /\ y_column \in Columns
            THEN /\ plotted' = ColumnValues(table, x_column)
                                \cup ColumnValues(table, y_column)
                 /\ ret' = "None"
            ELSE /\ plotted' = {}
                 /\ ret' = "KeyError"
    /\ UNCHANGED <<table, formation_tops, matrix_density, fluid_density, log_tracks,
                   df_calc, valid_data, labels, stat_values, ranges>>
    /\ UNCHANGED <<parseVars, procVars>>

\* visualization.py 196: the printed depth range of the script, over the
\* whole DEPT column.
PrintDepthRange ==
    /\ fn = "none"
    /\ fn' = "print_depth_range"
    /\ stat_values' = {x \in ColumnValues(table, "DEPT") : ~IsNaN(x)}
    /\ ranges' = <<FMin(ColumnValues(table, "DEPT")),
                   FMax(ColumnValues(table, "DEPT"))>>
    /\ ret' = "None"
    /\ UNCHANGED <<table, formation_tops, matrix_density, fluid_density, log_tracks,
                   column_args, df_calc, valid_data, labels, plotted, figures>>
    /\ UNCHANGED <<parseVars, procVars>>

\* crossplots.py 321-323: the printed neutron and density ranges.
PrintRanges ==
    /\ fn = "none"
    /\ fn' = "print_ranges"
    /\ stat_values' = {x \in ColumnValues(table, "NEU") \cup ColumnValues(table, "DEN") :
                          ~IsNaN(x)}
    /\ ranges' = <<FMin(ColumnValues(table, "NEU")), FMax(ColumnValues(table, "NEU")),
                   FMin(ColumnValues(table, "DEN")), FMax(ColumnValues(table, "DEN"))>>
    /\ ret' = "None"
    /\ UNCHANGED <<table, formation_tops, matrix_density, fluid_density, log_tracks,
                   column_args, df_calc, valid_data, labels, plotted, figures>>
    /\ UNCHANGED <<parseVars, procVars>>

\* The call has returned and the caller goes on to its next statement: the
\* locals of the call are gone, the caller's table stays.
Return ==
    /\ fn # "none"
    /\ fn' = "none"
    /\ formation_tops' = None
    /\ matrix_density' = Zero
    /\ fluid_density' = Zero
    /\ log_tracks' = <<>>
    /\ column_args' = <<>>
    /\ df_calc' = <<>>
    /\ valid_data' = <<>>
    /\ labels' = <<>>
    /\ plotted' = {}
    /\ stat_values' = {}
    /\ ranges' = <<>>
    /\ figures' = 0
    /\ ret' = "none"
    /\ UNCHANGED table
    /\ UNCHANGED <<parseVars, procVars>>

PlotNext ==
    \/ NeutronDensityCrossplot
    \/ PorosityEstimationPlot
    \/ PlotWellLogTracks
    \/ MainTrackPanel
    \/ PlotHistogram
    \/ PlotScatter
    \/ PrintDepthRange
    \/ PrintRanges
    \/ Return

----------------------------------------------------------------------------
(* data_processing.py, utils.py and the test of data_processing.py *)

\* The DataFrames passed: two columns of the same length.
SampleValues == {Frac(50, 1), Frac(60, 1), Frac(70, 1)}
DataColumns == {"gamma_ray", "resistivity"}
DataFrames ==
    UNION {[DataColumns -> [1..n -> SampleValues]] : n \in 1..MaxSamples}

\* (data - data.min()) / (data.max() - data.min()), column by column.
Normalized(d) ==
    [c \in DOMAIN d |->
        [i \in 1..Len(d[c]) |->
            FDiv(FSub(d[c][i], FMin(Range(d[c]))),
                 FSub(FMax(Range(d[c])), FMin(Range(d[c]))))]]

\* data_processing.py 20-24
NormalizeWellLogData ==
    /\ proc = "none"
    /\ proc' = "normalize_well_log_data"
    /\ result' = IF dataset # None THEN Some(Normalized(Val(dataset))) ELSE None
    /\ UNCHANGED <<dataset, test>>
    /\ UNCHANGED <<parseVars, plotVars>>

\* utils.py 11-13: None has no min().
NormalizeData ==
    /\ proc = "none"
    /\ proc' = "normalize_data"
    /\ result' = IF dataset # None THEN Some(Normalized(Val(dataset)))
                 ELSE Some("AttributeError")
    /\ UNCHANGED <<dataset, test>>
    /\ UNCHANGED <<parseVars, plotVars>>

\* The names data_processing.py defines.
ModuleNames ==
    {"load_well_log_data", "clean_well_log_data", "normalize_well_log_data",
     "transform_well_log_data"}

\* from src.data_processing import <name>
ImportFrom(name) == IF name \in ModuleNames THEN "imported" ELSE "ImportError"

\* tests/test_data_processing.py 2: the import at the top of the test module,
\* before any test can call the function.
RunTest ==
    /\ test = "not run"
    /\ test' = ImportFrom("process_well_log_data")
    /\ UNCHANGED <<dataset, proc, result>>
    /\ UNCHANGED <<parseVars, plotVars>>

\* The call has returned; the caller's data stays.
ProcReturn ==
    /\ proc # "none"
    /\ proc' = "none"
    /\ result' = None
    /\ UNCHANGED <<dataset, test>>
    /\ UNCHANGED <<parseVars, plotVars>>

ProcNext == NormalizeWellLogData \/ NormalizeData \/ RunTest \/ ProcReturn

----------------------------------------------------------------------------
(* The three programs: a run of the parsing script, a session of calls of *)
(* the plotting functions on one table, and the data_processing functions  *)
(* with their test                                                         *)

\* No file is being parsed.
ParseOff ==
    /\ lines = <<>>
    /\ pc = "off"
    /\ curve_start = None
    /\ ascii_start = None
    /\ curve_names = <<>>
    /\ data = <<>>
    /\ df = None
    /\ err = "none"

\* The script has read the lines of a file.
ParseStart(ls) ==
    /\ lines = ls
    /\ pc = "scan"
    /\ curve_start = None
    /\ ascii_start = None
    /\ curve_names = <<>>
    /\ data = <<>>
    /\ df = None
    /\ err = "none"

\* No plotting function has been called.
PlotIdle ==
    /\ fn = "none"
    /\ formation_tops = None
    /\ matrix_density = Zero
    /\ fluid_density = Zero
    /\ log_tracks = <<>>
    /\ column_args = <<>>
    /\ df_calc = <<>>
    /\ valid_data = <<>>
    /\ labels = <<>>
    /\ plotted = {}
    /\ stat_values = {}
    /\ ranges = <<>>
    /\ figures = 0
    /\ ret = "none"

\* No data_processing function has been called, the test has not run.
ProcIdle ==
    /\ proc = "none"
    /\ result = None
    /\ test = "not run"

ParseInit ==
    /\ \E ls \in Files : ParseStart(ls)
    /\ table = <<>> /\ PlotIdle
    /\ dataset = None /\ ProcIdle

PlotInit ==
    /\ table \in Tables /\ PlotIdle
    /\ ParseOff
    /\ dataset = None /\ ProcIdle

ProcInit ==
    /\ dataset \in {None} \cup {Some(d) : d \in DataFrames} /\ ProcIdle
    /\ ParseOff
    /\ table = <<>> /\ PlotIdle

SpecParse == ParseInit /\ [][ParseNext]_vars
SpecPlots == PlotInit /\ [][PlotNext]_vars
SpecProcessing == ProcInit /\ [][ProcNext]_vars

----------------------------------------------------------------------------
(* What a file holds, read off its characters by position (not by the      *)
(* script's own string operations)                                         *)

Blank(line) == \A j \in 1..Len(line) : IsSpace(line[j])

\* The position of the first character that is not whitespace.
FirstInk(line) ==
    CHOOSE j \in 1..Len(line) :
        ~IsSpace(line[j]) /\ \A t \in 1..(j - 1) : IsSpace(line[t])

\* The trimmed line begins with the characters m (m begins with no whitespace).
Begins(line, m) ==
    \E f \in 1..(Len(line) - Len(m) + 1) :
        /\ \A t \in 1..(f - 1) : IsSpace(line[t])
        /\ \A t \in 1..Len(m) : line[f + t - 1] = m[t]

\* The positions at which a whitespace-delimited token starts, and one token.
TokenStarts(line) ==
    {j \in 1..Len(line) : ~IsSpace(line[j]) /\ (j = 1 \/ IsSpace(line[j - 1]))}
TokenEnd(line, j) ==
    CHOOSE e \in j..Len(line) :
        /\ \A t \in j..e : ~IsSpace(line[t])
        /\ (e = Len(line) \/ IsSpace(line[e + 1]))
TokenAt(line, j) == SubSeq(line, j, TokenEnd(line, j))

\* The mnemonic of a curve line: its first token, cut before its first '.'.
MnemonicEnd(line) ==
    CHOOSE e \in (FirstInk(line) - 1)..Len(line) :
        /\ \A t \in FirstInk(line)..e : ~IsSpace(line[t]) /\ line[t] # Dot
        /\ (e = Len(line) \/ IsSpace(line[e + 1]) \/ line[e + 1] = Dot)
Mnemonic(line) == SubSeq(line, FirstInk(line), MnemonicEnd(line))

\* Line numbers (from 1) of the marker lines.
IsCurveMarker(ls, i) == Begins(ls[i], CurveMarker)
IsAsciiMarker(ls, i) == Begins(ls[i], AsciiMarker)
CurveMarkerLines(ls) == {i \in 1..Len(ls) : IsCurveMarker(ls, i)}
AsciiMarkerLines(ls) == {i \in 1..Len(ls) : IsAsciiMarker(ls, i)}
HasAscii(ls) == \E i \in 1..Len(ls) : IsAsciiMarker(ls, i)
FirstAscii(ls) ==
    CHOOSE a \in 1..Len(ls) :
        IsAsciiMarker(ls, a) /\ \A t \in 1..(a - 1) : ~IsAsciiMarker(ls, t)

\* Both markers are there, a curve marker before the first ~ASCII marker.
HasSections(ls) ==
    \E a \in 1..Len(ls) :
        /\ IsAsciiMarker(ls, a)
        /\ \A t \in 1..(a - 1) : ~IsAsciiMarker(ls, t)
        /\ \E c \in 1..(a - 1) : IsCurveMarker(ls, c)

\* The curve marker the block starts at: the last one before the ~ASCII marker.
BlockStart(ls) ==
    CHOOSE c \in 1..(FirstAscii(ls) - 1) :
        /\ IsCurveMarker(ls, c)
        /\ \A t \in (c + 1)..(FirstAscii(ls) - 1) : ~IsCurveMarker(ls, t)

\* The curve-definition lines: those of the block neither blank nor a comment.
CurveLines(ls) ==
    {i \in (BlockStart(ls) + 1)..(FirstAscii(ls) - 1) :
        ~Blank(ls[i]) /\ ~Begins(ls[i], CommentMark)}

\* The data lines: the non-blank lines after the first ~ASCII marker.
DataLineNumbers(ls) ==
    IF ~HasAscii(ls) THEN {}
    ELSE {i \in (FirstAscii(ls) + 1)..Len(ls) : ~Blank(ls[i])}

\* The elements of a set of line numbers in increasing order.
Ascending(S) ==
    [j \in 1..Cardinality(S) |->
        CHOOSE i \in S : Cardinality({x \in S : x < i}) = j - 1]

\* One curve marker, then the curve lines, then the first ~ASCII marker, then
\* data lines of as many numeric tokens as there are curve lines; blank lines
\* anywhere, '#' lines anywhere before the ~ASCII marker.
WellFormed(ls) ==
    /\ HasSections(ls)
    /\ Cardinality(CurveMarkerLines(ls)) = 1
    /\ \A i \in DataLineNumbers(ls) :
          /\ Cardinality(TokenStarts(ls[i])) = Cardinality(CurveLines(ls))
          /\ \A j \in TokenStarts(ls[i]) : IsNumeric(TokenAt(ls[i], j))

Ended == pc \in {"done", "failed"}

----------------------------------------------------------------------------
(* Claims about the LAS parse *)

\* C1: for a well-formed file with k curve lines and n non-blank data lines the
\* parse does not fail, and it returns k curve names and a table of n rows of
\* k fields each, the k numbers read from the row's line and no field added;
\* blank lines of the data block add no row.
C1_WellFormedShape ==
    /\ pc = "failed" => ~WellFormed(lines)
    /\ (pc = "done" /\ WellFormed(lines)) =>
          /\ Len(curve_names) = Cardinality(CurveLines(lines))
          /\ Len(Val(df).columns) = Cardinality(CurveLines(lines))
          /\ Len(Val(df).rows) = Cardinality(DataLineNumbers(lines))
          /\ \A r \in 1..Len(Val(df).rows) :
                /\ Len(Val(df).rows[r]) = Cardinality(CurveLines(lines))
                /\ Val(df).rows[r] = data[r]
                /\ Len(data[r]) =
                      Cardinality(TokenStarts(lines[Ascending(DataLineNumbers(lines))[r]]))

\* A well-formed file with a comment in its curve block and a blank line
\* before a data row has been parsed.
C1_Witness ==
    /\ pc = "done"
    /\ WellFormed(lines)
    /\ Cardinality(CurveLines(lines)) >= 1
    /\ Len(Val(df).rows) >= 1
    /\ \E i \in (BlockStart(lines) + 1)..(FirstAscii(lines) - 1) :
          Begins(lines[i], CommentMark)
    /\ \E i \in (FirstAscii(lines) + 1)..(Len(lines) - 1) : Blank(lines[i])

\* C2: when a marker is absent, or no curve marker comes before the first
\* ~ASCII marker, the parse fails with MalformedLasError and returns no table.
C2_Original ==
    (pc \notin {"scan", "names"} /\ ~HasSections(lines)) =>
        (pc = "failed" /\ err = "MalformedLasError" /\ df = None)

\* C3 as stated: a file with a data row whose field count differs from the
\* number of curve names is rejected: the parse fails and returns no table.
C3_RaggedRowRejected ==
    (/\ Ended
     /\ HasSections(lines)
     /\ \E i \in DataLineNumbers(lines) :
           Cardinality(TokenStarts(lines[i])) # Cardinality(CurveLines(lines)))
    => (pc = "failed" /\ df = None)

\* The lines of the curve block that are not blank and whose first character
\* is not '#'.
UncommentedLines(ls) ==
    {i \in (BlockStart(ls) + 1)..(FirstAscii(ls) - 1) :
        ~Blank(ls[i]) /\ ls[i][1] # CommentMark[1]}

\* C9 as stated: the curve names are, in file order, the mnemonics of the lines
\* between the curve marker and the ~ASCII marker that are neither blank after
\* trimming nor start with '#'.
C9_Original ==
    (pc \in {"data", "frame", "done"} /\ HasSections(lines)) =>
        curve_names =
            [j \in 1..Cardinality(UncommentedLines(lines)) |->
                Mnemonic(lines[Ascending(UncommentedLines(lines))[j]])]

\* C9 as amended: the curve names are, in file order, the mnemonics of the
\* curve lines: the lines between the curve marker and the ~ASCII marker that,
\* once trimmed, are neither empty nor start with '#'; equal mnemonics stay,
\* each at its place.
C9_CurveNames ==
    (pc \in {"data", "frame", "done"} /\ HasSections(lines)) =>
        /\ curve_names =
              [j \in 1..Cardinality(CurveLines(lines)) |->
                  Mnemonic(lines[Ascending(CurveLines(lines))[j]])]
        /\ pc = "done" => Val(df).columns = curve_names

\* Two curve lines with the same mnemonic, a comment between them, were read
\* as two columns of that name.
C9_Witness ==
    /\ pc = "done"
    /\ Len(curve_names) = 2
    /\ curve_names[1] = curve_names[2]
    /\ \E i \in (BlockStart(lines) + 1)..(FirstAscii(lines) - 1) :
          Begins(lines[i], CommentMark)

----------------------------------------------------------------------------
(* Claims about the plotting functions *)

\* The tops of the call, and whether no two share a depth.
Tops == Val(formation_tops)
UniqueDepths(tops) ==
    \A i, j \in 1..Len(tops) : i # j => ~FEq(tops[i], tops[j])

\* The entry of tops a depth belongs to: the one with the greatest top depth at
\* or above the sample (top depth <= depth), the shallowest one when there is none.
EnclosingTop(tops, depth) ==
    IF \E i \in 1..Len(tops) : FLe(tops[i], depth)
    THEN CHOOSE i \in 1..Len(tops) :
            /\ FLe(tops[i], depth)
            /\ \A j \in 1..Len(tops) : FLe(tops[j], depth) => FLe(tops[j], tops[i])
    ELSE CHOOSE i \in 1..Len(tops) : \A j \in 1..Len(tops) : FLe(tops[i], tops[j])

\* C4: with one top or more, no two at the same depth, every valid sample is
\* assigned the top with the greatest top_depth <= its depth, and the
\* shallowest top when its depth is above every top.
C4_EnclosingFormation ==
    (/\ fn = "neutron_density_crossplot"
     /\ formation_tops # None
     /\ valid_data # <<>>
     /\ Len(Tops) >= 1
     /\ UniqueDepths(Tops))
    => /\ ret = "Figure"
       /\ Len(labels) = Len(valid_data)
       /\ \A r \in 1..Len(valid_data) :
             labels[r] = KeyNames[EnclosingTop(Tops, valid_data[r].DEPT)]

\* With the tops A = 0, B = 100, C = 200, a sample at depth -10 was assigned A
\* and a sample at depth 100 was assigned B.
C4_Witness ==
    /\ fn = "neutron_density_crossplot"
    /\ formation_tops = Some(<<Frac(0, 1), Frac(100, 1), Frac(200, 1)>>)
    /\ \E r \in 1..Len(valid_data) :
          valid_data[r].DEPT = Frac(-10, 1) /\ labels[r] = "A"
    /\ \E r \in 1..Len(valid_data) :
          valid_data[r].DEPT = Frac(100, 1) /\ labels[r] = "B"

\* C5 as stated: with formation tops that are empty, or two of which share a
\* depth, the classification of the valid samples fails and assigns no
\* formation.
C5_BadTopsRejected ==
    (/\ fn = "neutron_density_crossplot"
     /\ formation_tops # None
     /\ valid_data # <<>>
     /\ (Len(Tops) = 0 \/ ~UniqueDepths(Tops)))
    => (ret \notin {"Figure", "NoData"} /\ labels = <<>>)

\* No row of the caller's table has both a neutron and a density measurement.
NoValidSample(t) ==
    \A r \in 1..Len(t) : t[r].NEU = Null \/ t[r].DEN = Null

\* C6: on a table without a valid sample neutron_density_crossplot returns
\* (None, None), raises nothing, makes no figure and plots nothing, with and
\* without formation tops.
C6_NoDataResult ==
    (fn = "neutron_density_crossplot" /\ NoValidSample(table))
    => (ret = "NoData" /\ figures = 0 /\ plotted = {} /\ labels = <<>>)

\* The no-data result of a call with formation tops on a table with rows, all
\* of them with the null value as density.
C6_Witness ==
    /\ fn = "neutron_density_crossplot"
    /\ ret = "NoData"
    /\ formation_tops # None
    /\ Len(table) >= 1
    /\ \A r \in 1..Len(table) : table[r].DEN = Null

\* C7 as stated: no function plots the null value -999.25, and none takes a
\* printed minimum or maximum over it.
C7_NullNeverUsed ==
    /\ \A x \in plotted : FNe(x, Null)
    /\ \A x \in stat_values : FNe(x, Null)

\* C8 as stated: whatever matrix_density and fluid_density are passed, the PHID
\* of every sample lies in [0, 1].
C8_PorosityInUnitInterval ==
    fn = "porosity_estimation_plot" =>
        \A r \in 1..Len(df_calc) :
            FGe(df_calc[r].PHID, Zero) /\ FLe(df_calc[r].PHID, One)

\* C11: no call of neutron_density_crossplot, porosity_estimation_plot or
\* plot_well_log_tracks (nor the return from one) changes the caller's table:
\* in every step the table keeps its columns, its rows and its values.
C11_TableNeverModified == [][table' = table]_vars

\* A call of porosity_estimation_plot has derived PHID for a table of two or
\* more rows, one of them with the null value as neutron, and filtered that
\* row out, in its own frames: the caller's table has its three columns and
\* all its rows.
C11_Witness ==
    /\ fn = "porosity_estimation_plot"
    /\ Len(table) >= 2
    /\ Len(df_calc) = Len(table)
    /\ \A r \in 1..Len(df_calc) : "PHID" \in DOMAIN df_calc[r]
    /\ matrix_density # fluid_density
    /\ \E r \in 1..Len(table) : table[r].NEU = Null
    /\ Len(valid_data) < Len(table)
    /\ \A r \in 1..Len(table) : DOMAIN table[r] = Columns

\* The row of the table a row of df_calc was made from.
WithoutPHID(row) == [DEPT |-> row.DEPT, NEU |-> row.NEU, DEN |-> row.DEN]

\* C12 as stated: whatever matrix_density and fluid_density are passed, the
\* valid samples of porosity_estimation_plot are exactly the rows of the table
\* whose neutron and density both differ from -999.25, in the table's order.
C12_RangeFilterNoOp ==
    fn = "porosity_estimation_plot" =>
        [r \in 1..Len(valid_data) |-> WithoutPHID(valid_data[r])] = ValidRows(table)

----------------------------------------------------------------------------
(* Claims about data_processing.py *)

\* C10 as stated needs process_well_log_data to be there to apply: once the
\* test module has been loaded, its import of the function has succeeded, so
\* that the test can call it and compare what it returns.
C10_FunctionImported == test # "not run" => test = "imported"

\* C13 as stated: normalize_well_log_data and normalize_data give, for every
\* column of a DataFrame (a column of equal values included), values in
\* [0, 1] with 0 and 1 among them at the column's minimum and maximum, and
\* normalize_well_log_data(None) is None.
C13_NormalizedToUnitInterval ==
    /\ (proc \in {"normalize_well_log_data", "normalize_data"} /\ dataset # None) =>
          \A c \in DataColumns :
             LET col == Val(dataset)[c]
                 out == Val(result)[c]
             IN \A i \in 1..Len(col) :
                   /\ FGe(out[i], Zero) /\ FLe(out[i], One)
                   /\ FEq(col[i], FMin(Range(col))) => FEq(out[i], Zero)
                   /\ FEq(col[i], FMax(Range(col))) => FEq(out[i], One)
    /\ (proc = "normalize_well_log_data" /\ dataset = None) => result = None

====
